---------------------------- MODULE Spec2Model ----------------------------
(***************************************************************************)
(* A model of the SPH fluid simulation of src/src/main.rs: the particle    *)
(* collection of Sim, the operations clear, init, compute_density_pressure,*)
(* compute_forces and integrate, and the loop of main that drives them.    *)
(*                                                                         *)
(* The program computes in IEEE-754 binary32 (f32).  The model computes in *)
(* a binary floating-point format of the same shape with a narrower        *)
(* significand: MantBits bits instead of 24, round to nearest, ties to     *)
(* even, gradual underflow, overflow to infinity, NaN.  A value is a record*)
(*   [k |-> "fin", m |-> signed significand, e |-> exponent]  = m * 2^e    *)
(*   [k |-> "inf", m |-> 1 or -1, e |-> 0]                                 *)
(*   [k |-> "nan", m |-> 0, e |-> 0]                                       *)
(* and every value has one representation: a normal number has            *)
(* 2^(MantBits-1) <= |m| < 2^MantBits, a subnormal one has e = EMin, zero  *)
(* is m = 0, e = 0.  The sign of zero is not kept: no operation of the     *)
(* program divides by a negative zero (every divisor is a density, twice a *)
(* density, or a square root), and -0.0 == 0.0 in every comparison.        *)
(***************************************************************************)
EXTENDS Integers, Sequences, FiniteSets, TLC

\* Bits of the significand of the model's floating-point format.
MantBits == 12

\* f32 has an 8-bit exponent: every finite value is below 2^(2^7) = 2^128.
EMaxPow == 2 ^ 7

\* The smallest normal f32 is 2^-126; the quantum of the subnormals lies
\* MantBits-1 binary places below it.
EMinNormalPow == 2 - EMaxPow

EMin == EMinNormalPow - (MantBits - 1)

Pow2(n) == 2 ^ n

Abs(n) == IF n < 0 THEN -n ELSE n

Sgn(n) == IF n < 0 THEN -1 ELSE IF n > 0 THEN 1 ELSE 0

Max(a, b) == IF a >= b THEN a ELSE b

Min(a, b) == IF a <= b THEN a ELSE b

RECURSIVE BitLen(_)
\* Number of binary digits of the natural number n.
BitLen(n) == IF n = 0 THEN 0 ELSE 1 + BitLen(n \div 2)

RECURSIVE ISqrtB(_, _, _)
\* Largest s in lo..hi with s*s <= n, by bisection (hi*hi must not overflow).
ISqrtB(n, lo, hi) ==
    IF lo >= hi THEN lo
    ELSE LET mid == (lo + hi + 1) \div 2
         IN  IF mid * mid <= n THEN ISqrtB(n, mid, hi)
                               ELSE ISqrtB(n, lo, mid - 1)

ISqrt(n) == ISqrtB(n, 0, 46340)

Fin(m, e) == [k |-> "fin", m |-> m, e |-> e]

NaN == [k |-> "nan", m |-> 0, e |-> 0]

Inf(s) == [k |-> "inf", m |-> s, e |-> 0]

Zero == Fin(0, 0)

IsNaN(a) == a.k = "nan"

IsFinite(a) == a.k = "fin"

\* The value M * 2^E rounded to the format: to nearest, ties to even.
Rnd(M, E) ==
    IF M = 0 THEN Zero
    ELSE
      LET a == Abs(M)
          s == Sgn(M)
          L == BitLen(a)
          q == Max(E + L - MantBits, EMin)
          d == q - E
      IN  IF d <= 0
            THEN IF q + MantBits > EMaxPow THEN Inf(s)
                 ELSE Fin(s * a * Pow2(-d), q)
          ELSE IF d > L + 1 THEN Zero
          ELSE
            LET half == Pow2(d - 1)
                m0   == a \div (2 * half)
                rem  == a % (2 * half)
                m1   == IF rem > half \/ (rem = half /\ m0 % 2 = 1)
                          THEN m0 + 1 ELSE m0
                m2   == IF m1 = Pow2(MantBits) THEN Pow2(MantBits - 1) ELSE m1
                q2   == IF m1 = Pow2(MantBits) THEN q + 1 ELSE q
            IN  IF m2 = 0 THEN Zero
                ELSE IF q2 + MantBits > EMaxPow THEN Inf(s)
                ELSE Fin(s * m2, q2)

\* An integer literal of the program (1000.0, 16.0, ...).
F(n) == Rnd(n, 0)

FNeg(a) == IF IsNaN(a) THEN NaN ELSE [a EXCEPT !.m = -a.m]

FAdd(a, b) ==
    IF IsNaN(a) \/ IsNaN(b) THEN NaN
    ELSE IF a.k = "inf"
      THEN IF b.k = "inf" /\ b.m # a.m THEN NaN ELSE a
    ELSE IF b.k = "inf" THEN b
    ELSE IF a.m = 0 THEN b
    ELSE IF b.m = 0 THEN a
    ELSE
      LET hi == IF a.e >= b.e THEN a ELSE b
          lo == IF a.e >= b.e THEN b ELSE a
          d  == hi.e - lo.e
      IN  IF d > MantBits + 2 THEN hi
          ELSE Rnd(hi.m * Pow2(d) + lo.m, lo.e)

FSub(a, b) == FAdd(a, FNeg(b))

FMul(a, b) ==
    IF IsNaN(a) \/ IsNaN(b) THEN NaN
    ELSE IF a.k = "inf" \/ b.k = "inf"
      THEN IF a.m = 0 \/ b.m = 0 THEN NaN ELSE Inf(Sgn(a.m) * Sgn(b.m))
    ELSE Rnd(a.m * b.m, a.e + b.e)

FDiv(a, b) ==
    IF IsNaN(a) \/ IsNaN(b) THEN NaN
    ELSE IF a.k = "inf"
      THEN IF b.k = "inf" THEN NaN
           ELSE Inf(IF b.m < 0 THEN -a.m ELSE a.m)
    ELSE IF b.k = "inf" THEN Zero
    ELSE IF b.m = 0
      THEN IF a.m = 0 THEN NaN ELSE Inf(Sgn(a.m))
    ELSE IF a.m = 0 THEN Zero
    ELSE
      LET ka  == 2 * MantBits + 2 - BitLen(Abs(a.m))
          num == Abs(a.m) * Pow2(ka)
          den == Abs(b.m)
          qt  == num \div den
          st  == IF num % den = 0 THEN 0 ELSE 1
      IN  Rnd(Sgn(a.m) * Sgn(b.m) * (2 * qt + st), a.e - ka - b.e - 1)

FSqrt(a) ==
    IF IsNaN(a) THEN NaN
    ELSE IF a.m < 0 THEN NaN
    ELSE IF a.k = "inf" THEN a
    ELSE IF a.m = 0 THEN Zero
    ELSE
      LET k0 == 2 * MantBits + 2 - BitLen(a.m)
          kk == IF (a.e - k0) % 2 = 0 THEN k0 ELSE k0 + 1
          n  == a.m * Pow2(kk)
          s  == ISqrt(n)
          st == IF s * s = n THEN 0 ELSE 1
      IN  Rnd(2 * s + st, ((a.e - kk) \div 2) - 1)

\* a < b; false when either is NaN.
FLt(a, b) ==
    IF IsNaN(a) \/ IsNaN(b) THEN FALSE
    ELSE IF a.k = "inf" THEN a.m < 0 /\ ~(b.k = "inf" /\ b.m < 0)
    ELSE IF b.k = "inf" THEN b.m > 0
    ELSE IF Sgn(a.m) # Sgn(b.m) THEN Sgn(a.m) < Sgn(b.m)
    ELSE IF a.m = 0 THEN FALSE
    ELSE IF a.m > 0 THEN a.e < b.e \/ (a.e = b.e /\ a.m < b.m)
    ELSE b.e < a.e \/ (a.e = b.e /\ a.m < b.m)

\* a == b; false when either is NaN.
FEq(a, b) == ~IsNaN(a) /\ ~IsNaN(b) /\ a = b

FLe(a, b) == FLt(a, b) \/ FEq(a, b)

FGt(a, b) == FLt(b, a)

RECURSIVE Powi(_, _)
\* x.powf(n) for the whole exponents the program uses (3, 5, 8).
Powi(x, n) == IF n = 1 THEN x ELSE FMul(Powi(x, n - 1), x)


(***************************************************************************)
(* glam's Vec2: a pair of f32, with the operators the program uses.        *)
(***************************************************************************)
Vec2(x, y) == [x |-> x, y |-> y]

VZero == Vec2(Zero, Zero)

VAdd(a, b) == Vec2(FAdd(a.x, b.x), FAdd(a.y, b.y))

VSub(a, b) == Vec2(FSub(a.x, b.x), FSub(a.y, b.y))

VNeg(a) == Vec2(FNeg(a.x), FNeg(a.y))

\* Vec2 * f32 and f32 * Vec2.
VScale(a, s) == Vec2(FMul(a.x, s), FMul(a.y, s))

\* Vec2 / f32.
VDiv(a, s) == Vec2(FDiv(a.x, s), FDiv(a.y, s))

Dot(a, b) == FAdd(FMul(a.x, b.x), FMul(a.y, b.y))

\* Vec2::normalize: self * (1.0 / self.length()); NaN for the zero vector.
Normalize(a) == VScale(a, FDiv(F(1), FSqrt(Dot(a, a))))

\* Vec2's PartialEq: component-wise f32 equality.
VEq(a, b) == FEq(a.x, b.x) /\ FEq(a.y, b.y)

(***************************************************************************)
(* The constants of the program.                                           *)
(***************************************************************************)
VIEW_WIDTH == F(1000)

VIEW_HEIGHT == F(1000)

H == F(16)

EPS == H

HSQ == FMul(H, H)

\* 2.5
MASS == Rnd(5, -1)

GAS == F(2000)

REST_DENS == F(300)

VISC == F(200)

G == Vec2(Zero, F(-10))

\* 0.0007
DT == FDiv(F(7), F(10000))

\* -0.5
BOUND_DAMPING == Rnd(-1, -1)

UPDATES_PER_FRAME == 2

\* std::f32::consts::PI = 13176795 * 2^-22
PI == Rnd(13176795, -22)

(***************************************************************************)
(* Particle.                                                               *)
(***************************************************************************)
Particle(x, v, f, rho, p) == [x |-> x, v |-> v, f |-> f, rho |-> rho, p |-> p]

\* Particle::new
New(x, y) == Particle(Vec2(x, y), VZero, VZero, Zero, Zero)

\* #[derive(PartialEq)] on Particle: all five fields equal, by value.
ParticleEq(a, b) ==
    /\ VEq(a.x, b.x)
    /\ VEq(a.v, b.v)
    /\ VEq(a.f, b.f)
    /\ FEq(a.rho, b.rho)
    /\ FEq(a.p, b.p)

(***************************************************************************)
(* Bounds of the model.                                                    *)
(***************************************************************************)
\* Largest value of the particle cap (DAM_PARTICLES) of a run that steps.
MaxParticles == 2

\* Iterations of the loop of main a run may start.
MaxFrames == 2

\* Length of the cycle of jitter values a generator of the model repeats.
StreamLen == 3

\* The values rand::gen_range(0.0, 1.0) returns in the model: 0.0 and 0.5.
JitterSet == {Zero, Rnd(1, -1)}

\* The generators: the state of one is the cycle of values it will return.
Streams == [1 .. StreamLen -> JitterSet]

(***************************************************************************)
(* State.                                                                  *)
(***************************************************************************)
VARIABLES
    particles,      \* Sim::particles
    dam_particles,  \* DAM_PARTICLES, the particle cap of the run
    rng,            \* the state of the generator behind rand::gen_range
    pc,             \* where main is
    upd,            \* iterations of `for _ in 0..UPDATES_PER_FRAME` done
    frames,         \* iterations of `loop` started
    tick,           \* ticks started (history)
    rhoTick,        \* per particle, the tick that wrote rho and p (history)
    fTick,          \* per particle, the tick that wrote f (history)
    paired,         \* per particle, the indices compute_forces paired it with
    old,            \* particles before the latest operation (history)
    last,           \* the latest operation (history)
    first           \* number of particles the first init produced (history)

vars == <<particles, dam_particles, rng, pc, upd, frames, tick, rhoTick,
          fTick, paired, old, last, first>>

Indices(ps) == 1 .. Len(ps)

(***************************************************************************)
(* Sim::clear                                                              *)
(***************************************************************************)
\* clear with a plausible fault: the collection is left as it is.
clear_keep(ps) == ps

clear(ps) == << >>

(***************************************************************************)
(* Sim::init.  The state of the two loops is st = [ps, rng, ret]: the      *)
(* collection, the generator, and whether `return` was executed.           *)
(***************************************************************************)
\* rand::gen_range(0.0, 1.0): the generator returns the head of its cycle
\* and moves on.
gen_range(g) == [value |-> Head(g), rng |-> Append(Tail(g), Head(g))]

\* init_push with a plausible fault: `<=` for `<` in the test of the cap.
init_push_le(st, x, y, cap) ==
    IF Len(st.ps) <= cap
      THEN LET jitter == gen_range(st.rng)
           IN  [ps  |-> Append(st.ps, New(FAdd(x, jitter.value), y)),
                rng |-> jitter.rng,
                ret |-> FALSE]
      ELSE [st EXCEPT !.ret = TRUE]

\* The body of the inner loop for the column at x of the row at y.
init_push(st, x, y, cap) ==
    IF Len(st.ps) < cap
      THEN LET jitter == gen_range(st.rng)
           IN  [ps  |-> Append(st.ps, New(FAdd(x, jitter.value), y)),
                rng |-> jitter.rng,
                ret |-> FALSE]
      ELSE [st EXCEPT !.ret = TRUE]

RECURSIVE init_row(_, _, _, _)
\* while x <= VIEW_WIDTH / 2.0 { ...; x += H; }
init_row(st, x, y, cap) ==
    IF st.ret \/ ~FLe(x, FDiv(VIEW_WIDTH, F(2))) THEN st
    ELSE init_row(init_push(st, x, y, cap), FAdd(x, H), y, cap)

RECURSIVE init_rows(_, _, _)
\* while y < VIEW_HEIGHT - EPS * 2.0 { let mut x = VIEW_WIDTH / 7.0; ...; y += H; }
init_rows(st, y, cap) ==
    IF st.ret \/ ~FLt(y, FSub(VIEW_HEIGHT, FMul(EPS, F(2)))) THEN st
    ELSE init_rows(init_row(st, FDiv(VIEW_WIDTH, F(7)), y, cap), FAdd(y, H), cap)

init(ps, g, cap) == init_rows([ps |-> ps, rng |-> g, ret |-> FALSE], EPS, cap)

(***************************************************************************)
(* Sim::compute_density_pressure                                           *)
(***************************************************************************)
poly_6 == FDiv(F(4), FMul(PI, Powi(H, 8)))

\* The body of the inner for_each: rho of pi after pj's turn.
density_term(rho, pi, pj) ==
    LET rij == VSub(pj.x, pi.x)
        r2  == Dot(rij, rij)
    IN  IF FLt(r2, HSQ)
          THEN FAdd(rho, FMul(FMul(MASS, poly_6), Powi(FSub(HSQ, r2), 3)))
          ELSE rho

RECURSIVE density_sum(_, _, _, _)
\* x.iter().for_each(|pj| ...) from index j on.
density_sum(rho, pi, x, j) ==
    IF j > Len(x) THEN rho
    ELSE density_sum(density_term(rho, pi, x[j]), pi, x, j + 1)

density_of(pi, x) ==
    LET rho == density_sum(Zero, pi, x, 1)
    IN  [pi EXCEPT !.rho = rho, !.p = FMul(GAS, FSub(rho, REST_DENS))]

compute_density_pressure(ps) ==
    LET x == ps
    IN  [i \in Indices(ps) |-> density_of(ps[i], x)]

(***************************************************************************)
(* Sim::compute_forces                                                     *)
(***************************************************************************)
spiky_grad == FDiv(F(-10), FMul(PI, Powi(H, 5)))

visc_lap == FDiv(F(40), FMul(PI, Powi(H, 5)))

\* r of the pair.
distance(pi, pj) ==
    LET rij == VSub(pj.x, pi.x)
    IN  FSqrt(Dot(rij, rij))

\* `if pi != pj { ... if r < H {`: whether pj's terms are added to pi's force.
interacts(pi, pj) == ~ParticleEq(pi, pj) /\ FLt(distance(pi, pj), H)

pressure_term(pi, pj) ==
    LET rij == VSub(pj.x, pi.x)
        r   == FSqrt(Dot(rij, rij))
    IN  VScale(
          VScale(
            VDiv(
              VScale(VScale(VNeg(Normalize(rij)), MASS), FAdd(pi.p, pj.p)),
              FMul(F(2), pj.rho)),
            spiky_grad),
          Powi(FSub(H, r), 3))

\* viscosity_term with a plausible fault: pj.v for the relative velocity.
viscosity_term_abs(pi, pj) ==
    LET rij == VSub(pj.x, pi.x)
        r   == FSqrt(Dot(rij, rij))
    IN  VScale(
          VScale(
            VDiv(VScale(pj.v, FMul(VISC, MASS)), pj.rho),
            visc_lap),
          FSub(H, r))

viscosity_term(pi, pj) ==
    LET rij == VSub(pj.x, pi.x)
        r   == FSqrt(Dot(rij, rij))
    IN  VScale(
          VScale(
            VDiv(VScale(VSub(pj.v, pi.v), FMul(VISC, MASS)), pj.rho),
            visc_lap),
          FSub(H, r))

RECURSIVE force_sum(_, _, _, _)
\* x.iter().for_each(|pj| ...) from index j on; acc = [fpress, fvisc].
force_sum(acc, pi, x, j) ==
    IF j > Len(x) THEN acc
    ELSE IF interacts(pi, x[j])
      THEN force_sum([fpress |-> VAdd(acc.fpress, pressure_term(pi, x[j])),
                      fvisc  |-> VAdd(acc.fvisc, viscosity_term(pi, x[j]))],
                     pi, x, j + 1)
      ELSE force_sum(acc, pi, x, j + 1)

gravity_term(pi) == VDiv(VScale(G, MASS), pi.rho)

force_of(pi, x) ==
    LET acc == force_sum([fpress |-> VZero, fvisc |-> VZero], pi, x, 1)
    IN  [pi EXCEPT !.f = VAdd(VAdd(acc.fpress, acc.fvisc), gravity_term(pi))]

compute_forces(ps) ==
    LET x == ps
    IN  [i \in Indices(ps) |-> force_of(ps[i], x)]

\* The indices whose terms compute_forces adds to the force of particle i.
paired_with(ps, i) == {j \in Indices(ps) : interacts(ps[i], ps[j])}

(***************************************************************************)
(* Sim::integrate                                                          *)
(***************************************************************************)
\* euler with a plausible fault: the position advanced by the velocity of
\* before the step.
euler_explicit(p) ==
    [p EXCEPT !.v = VAdd(p.v, VDiv(VScale(p.f, DT), p.rho)),
              !.x = VAdd(p.x, VScale(p.v, DT))]

\* p.v += DT * p.f / p.rho; p.x += DT * p.v;
euler(p) ==
    LET v == VAdd(p.v, VDiv(VScale(p.f, DT), p.rho))
    IN  [p EXCEPT !.v = v, !.x = VAdd(p.x, VScale(v, DT))]

\* bound_x_low with a plausible fault: the position clamped, the velocity
\* left as it is.
bound_x_low_nodamp(p) ==
    IF FLt(FSub(p.x.x, EPS), Zero)
      THEN [p EXCEPT !.x.x = EPS]
      ELSE p

bound_x_low(p) ==
    IF FLt(FSub(p.x.x, EPS), Zero)
      THEN [p EXCEPT !.v.x = FMul(p.v.x, BOUND_DAMPING), !.x.x = EPS]
      ELSE p

bound_x_high(p) ==
    IF FGt(FAdd(p.x.x, EPS), VIEW_WIDTH)
      THEN [p EXCEPT !.v.x = FMul(p.v.x, BOUND_DAMPING),
                     !.x.x = FSub(VIEW_WIDTH, EPS)]
      ELSE p

bound_y_low(p) ==
    IF FLt(FSub(p.x.y, EPS), Zero)
      THEN [p EXCEPT !.v.y = FMul(p.v.y, BOUND_DAMPING), !.x.y = EPS]
      ELSE p

bound_y_high(p) ==
    IF FGt(FAdd(p.x.y, EPS), VIEW_HEIGHT)
      THEN [p EXCEPT !.v.y = FMul(p.v.y, BOUND_DAMPING),
                     !.x.y = FSub(VIEW_HEIGHT, EPS)]
      ELSE p

integrate_one(p) == bound_y_high(bound_y_low(bound_x_high(bound_x_low(euler(p)))))

\* Inside the domain: EPS <= x <= VIEW_WIDTH - EPS, EPS <= y <= VIEW_HEIGHT - EPS.
in_domain(p) ==
    /\ FLe(EPS, p.x.x)
    /\ FLe(p.x.x, FSub(VIEW_WIDTH, EPS))
    /\ FLe(EPS, p.x.y)
    /\ FLe(p.x.y, FSub(VIEW_HEIGHT, EPS))

\* integrate with a plausible fault: a particle that crossed an edge is
\* removed, not clamped.
integrate_drop(ps) ==
    SelectSeq([i \in Indices(ps) |-> euler(ps[i])], in_domain)

integrate(ps) == [i \in Indices(ps) |-> integrate_one(ps[i])]

(***************************************************************************)
(* main.  pc is the place in main:                                         *)
(*   "init"       before the first sim.init()                              *)
(*   "frame"      at the top of `loop`, before the keys are read           *)
(*   "reset"      R was pressed and sim.clear() is done, before sim.init() *)
(*   "update"     at the head of `for _ in 0..UPDATES_PER_FRAME`           *)
(*   "density", "forces", "integrate"   before that call of the loop body  *)
(*   "exit"       main has returned                                        *)
(* Drawing reads the particles and changes nothing: it is part of the step *)
(* from "update" back to "frame".                                          *)
(***************************************************************************)
\* The calls of the body of the update loop, in program order.
Stages == <<"density", "forces", "integrate">>

NoTicks(ps) == [i \in Indices(ps) |-> 0]

Stamp(ps, t) == [i \in Indices(ps) |-> t]

\* sim.init(), at the start of main and after sim.clear().
SimInit ==
    /\ pc \in {"init", "reset"}
    /\ LET st == init(particles, rng, dam_particles)
       IN  /\ particles' = st.ps
           /\ rng' = st.rng
           /\ rhoTick' = NoTicks(st.ps)
           /\ fTick' = NoTicks(st.ps)
           /\ paired' = [i \in Indices(st.ps) |-> {}]
           /\ first' = IF pc = "init" THEN Len(st.ps) ELSE first
    /\ pc' = IF pc = "init" THEN "frame" ELSE "update"
    /\ old' = particles
    /\ last' = "init"
    /\ UNCHANGED <<dam_particles, upd, frames, tick>>

\* is_key_pressed(KeyCode::Escape): return.
KeyEscape ==
    /\ pc = "frame"
    /\ pc' = "exit"
    /\ UNCHANGED <<particles, dam_particles, rng, upd, frames, tick, rhoTick,
                   fTick, paired, old, last, first>>

\* is_key_pressed(KeyCode::R): sim.clear().
KeyR ==
    /\ pc = "frame"
    /\ frames < MaxFrames
    /\ particles' = clear(particles)
    /\ rhoTick' = << >>
    /\ fTick' = << >>
    /\ paired' = << >>
    /\ pc' = "reset"
    /\ upd' = 0
    /\ frames' = frames + 1
    /\ old' = particles
    /\ last' = "clear"
    /\ UNCHANGED <<dam_particles, rng, tick, first>>

\* No key pressed: on to the update loop.
KeyNone ==
    /\ pc = "frame"
    /\ frames < MaxFrames
    /\ pc' = "update"
    /\ upd' = 0
    /\ frames' = frames + 1
    /\ UNCHANGED <<particles, dam_particles, rng, tick, rhoTick, fTick,
                   paired, old, last, first>>

\* The head of `for _ in 0..UPDATES_PER_FRAME`: one more tick, or the end of
\* the frame.
UpdateLoop ==
    /\ pc = "update"
    /\ IF upd < UPDATES_PER_FRAME
         THEN /\ pc' = Stages[1]
              /\ tick' = tick + 1
         ELSE /\ pc' = "frame"
              /\ tick' = tick
    /\ UNCHANGED <<particles, dam_particles, rng, upd, frames, rhoTick,
                   fTick, paired, old, last, first>>

\* Where main is after the call at position k of the loop body.
after_stage(k) == IF k < Len(Stages) THEN Stages[k + 1] ELSE "update"

StageAt(name) == CHOOSE k \in 1 .. Len(Stages) : Stages[k] = name

\* sim.compute_density_pressure()
ComputeDensityPressure ==
    /\ pc = "density"
    /\ particles' = compute_density_pressure(particles)
    /\ rhoTick' = Stamp(particles, tick)
    /\ pc' = after_stage(StageAt("density"))
    /\ upd' = IF pc' = "update" THEN upd + 1 ELSE upd
    /\ old' = particles
    /\ last' = "compute_density_pressure"
    /\ UNCHANGED <<dam_particles, rng, frames, tick, fTick, paired, first>>

\* sim.compute_forces()
ComputeForces ==
    /\ pc = "forces"
    /\ particles' = compute_forces(particles)
    /\ fTick' = Stamp(particles, tick)
    /\ paired' = [i \in Indices(particles) |-> paired_with(particles, i)]
    /\ pc' = after_stage(StageAt("forces"))
    /\ upd' = IF pc' = "update" THEN upd + 1 ELSE upd
    /\ old' = particles
    /\ last' = "compute_forces"
    /\ UNCHANGED <<dam_particles, rng, frames, tick, rhoTick, first>>

\* sim.integrate()
Integrate ==
    /\ pc = "integrate"
    /\ particles' = integrate(particles)
    /\ pc' = after_stage(StageAt("integrate"))
    /\ upd' = IF pc' = "update" THEN upd + 1 ELSE upd
    /\ old' = particles
    /\ last' = "integrate"
    /\ UNCHANGED <<dam_particles, rng, frames, tick, rhoTick, fTick, paired,
                   first>>

\* After Sim::new(): no particles.  The cap and the generator are whatever
\* the run was built and seeded with.
Init ==
    /\ particles = << >>
    /\ dam_particles \in 0 .. MaxParticles
    /\ rng \in Streams
    /\ pc = "init"
    /\ upd = 0
    /\ frames = 0
    /\ tick = 0
    /\ rhoTick = << >>
    /\ fTick = << >>
    /\ paired = << >>
    /\ old = << >>
    /\ last = "new"
    /\ first = 0

Next ==
    \/ SimInit
    \/ KeyEscape
    \/ KeyR
    \/ KeyNone
    \/ UpdateLoop
    \/ ComputeDensityPressure
    \/ ComputeForces
    \/ Integrate

Spec == Init /\ [][Next]_vars

(***************************************************************************)
(* The block of init in exact arithmetic: the rows are the y = 16 + 16k    *)
(* below 1000 - 32, the columns the x = 1000/7 + 16k up to 1000/2.         *)
(***************************************************************************)
GridRows == Cardinality({k \in 0 .. 99 : 16 + 16 * k < 1000 - 2 * 16})

GridCols == Cardinality({k \in 0 .. 99 : 2 * (1000 + 7 * 16 * k) <= 7 * 1000})

DAM_PARTICLES == 250000

(***************************************************************************)
(* Initialisation alone, also with the caps that fill the block: a row and *)
(* one particle, exactly the block, and the cap the program is built with. *)
(***************************************************************************)
BlockCaps ==
    (0 .. MaxParticles) \cup
    {GridCols + 1, GridRows * GridCols, DAM_PARTICLES}

InitBlock ==
    /\ particles = << >>
    /\ dam_particles \in BlockCaps
    /\ rng \in Streams
    /\ pc = "init"
    /\ upd = 0
    /\ frames = 0
    /\ tick = 0
    /\ rhoTick = << >>
    /\ fTick = << >>
    /\ paired = << >>
    /\ old = << >>
    /\ last = "new"
    /\ first = 0

NextInit ==
    \/ SimInit
    \/ KeyR

SpecInit == InitBlock /\ [][NextInit]_vars

(***************************************************************************)
(* The tick on populations as earlier ticks leave them: one or two         *)
(* particles inside the domain, at a corner, next to each other, a kernel  *)
(* radius apart, far apart or on the same spot, at rest or moving, with    *)
(* the force of the tick before.                                           *)
(***************************************************************************)
TestPositions ==
    {Vec2(F(16), F(16)), Vec2(F(24), F(16)), Vec2(F(32), F(16)),
     Vec2(F(20), F(19)), Vec2(F(984), F(984))}

TestVelocities ==
    {VZero, Vec2(F(-2000), F(-2000)), Vec2(F(2175), F(2078)),
     Vec2(F(1661), F(86))}

TestForces == {VZero, Vec2(F(100), Zero)}

TestParticles ==
    {Particle(x, v, f, Zero, Zero) :
        x \in TestPositions, v \in TestVelocities, f \in TestForces}

TestPopulations ==
    {<<a>> : a \in TestParticles} \cup
    {<<a, b>> : a \in TestParticles, b \in TestParticles}

InitFn ==
    /\ particles \in TestPopulations
    /\ dam_particles = Len(particles)
    /\ rng = [i \in 1 .. StreamLen |-> Zero]
    /\ pc = "update"
    /\ upd = 0
    /\ frames = 1
    /\ tick = 0
    /\ rhoTick = NoTicks(particles)
    /\ fTick = NoTicks(particles)
    /\ paired = [i \in Indices(particles) |-> {}]
    /\ old = particles
    /\ last = "new"
    /\ first = Len(particles)

NextFn ==
    \/ UpdateLoop
    \/ ComputeDensityPressure
    \/ ComputeForces
    \/ Integrate

SpecFn == InitFn /\ [][NextFn]_vars

(***************************************************************************)
(* The claims.                                                             *)
(***************************************************************************)
StageOps == {"compute_density_pressure", "compute_forces", "integrate"}

\* The y of the row that index i falls in when the block is filled row by row.
RowY(i) == F(16 + 16 * ((i - 1) \div GridCols))

\* The column that index i falls in.
ColOf(i) == (i - 1) % GridCols

\* A particle as Particle::new leaves it.
Fresh(p) == p.v = VZero /\ p.f = VZero /\ p.rho = Zero /\ p.p = Zero

\* C1: boundary containment: after any number of steps every particle has
\* EPS <= x <= VIEW_WIDTH - EPS and EPS <= y <= VIEW_HEIGHT - EPS; no
\* particle is left outside the domain after integrate.
C1_BoundaryContainment ==
    \A i \in Indices(particles) : in_domain(particles[i])

\* C2: density positivity: compute_density_pressure leaves every particle
\* with a density > 0, so every density the tick divides by (in
\* compute_forces and in integrate) is strictly positive.
C2_DensityPositive ==
    last \in StageOps =>
        \A i \in Indices(particles) : FGt(particles[i].rho, Zero)

\* C3: self-exclusion and kernel support: the particles whose pressure and
\* viscosity terms compute_forces adds to the force of particle i are
\* exactly the particles at another index whose distance to i is < H, also
\* one whose fields equal those of i.
C3_PairedExactlyNeighbours ==
    last = "compute_forces" =>
        \A i \in Indices(old) :
            paired[i] = {j \in Indices(old) \ {i} :
                            FLt(distance(old[i], old[j]), H)}

\* The population with the forces of the tick before forgotten.
forget_force(ps) == [i \in Indices(ps) |-> [ps[i] EXCEPT !.f = VZero]]

\* C4: stage order and tick-locality: every tick runs
\* compute_density_pressure, compute_forces, integrate in that order;
\* compute_forces works on the densities and pressures of the same tick,
\* integrate on the forces and densities of the same tick; a force of the
\* tick before is never read, so the forces compute_forces produces are
\* those it produces with the forces of the tick before forgotten.
C4_TickLocal ==
    /\ pc = "forces" => last = "compute_density_pressure"
    /\ pc = "integrate" => last = "compute_forces"
    /\ (pc = "integrate" /\ last = "compute_forces") =>
          \A j \in Indices(particles) : rhoTick[j] = tick
    /\ (pc = "update" /\ last = "integrate") =>
          \A j \in Indices(particles) : rhoTick[j] = tick /\ fTick[j] = tick
    /\ (pc = "integrate" /\ last = "compute_forces") =>
          particles = compute_forces(forget_force(old))

\* C5: fixed population: a step never adds, removes or reorders particles:
\* the count is unchanged by compute_density_pressure, compute_forces and
\* integrate, each index keeps the fields the operation does not compute,
\* and only clear and init change the count.
C5_FixedPopulation ==
    /\ last \in StageOps => Len(particles) = Len(old)
    /\ Len(particles) # Len(old) => last \in {"clear", "init"}
    /\ last = "compute_density_pressure" =>
          \A i \in Indices(old) :
              /\ particles[i].x = old[i].x
              /\ particles[i].v = old[i].v
              /\ particles[i].f = old[i].f
    /\ last = "compute_forces" =>
          \A i \in Indices(old) :
              /\ particles[i].x = old[i].x
              /\ particles[i].v = old[i].v
              /\ particles[i].rho = old[i].rho
              /\ particles[i].p = old[i].p
    /\ last = "integrate" =>
          \A i \in Indices(old) :
              /\ particles[i].f = old[i].f
              /\ particles[i].rho = old[i].rho
              /\ particles[i].p = old[i].p

\* C5's case: a population of several particles after integrate, ticks
\* into the run.
C5_Witness ==
    last = "integrate" /\ Len(particles) > 1 /\ tick > 2

\* C6: init on an empty population with cap C yields exactly
\* min(C, rows x columns) particles, never more than C, filled row by row
\* (a cap of zero yields none); the count and the y of each index depend on
\* the cap alone, whatever the jitter drawn.
C6_InitBounded ==
    (last = "init" /\ old = << >>) =>
        /\ Len(particles) = Min(dam_particles, GridRows * GridCols)
        /\ Len(particles) <= dam_particles
        /\ \A i \in Indices(particles) :
              /\ particles[i].x.y = RowY(i)
              /\ FLe(F(142 + 16 * ColOf(i)), particles[i].x.x)
              /\ FLe(particles[i].x.x, F(144 + 16 * ColOf(i)))

\* C6's case: the cap exceeds the block, and init filled the block.
C6_Witness ==
    /\ last = "init"
    /\ Len(particles) = GridRows * GridCols
    /\ dam_particles > Len(particles)

\* C7: reset repopulates from scratch: clear empties the collection, and
\* clear followed by init yields the count and the rows of the first
\* initialization, every particle with zero velocity, force, density and
\* pressure.
C7_ResetRepopulates ==
    /\ last = "clear" => particles = << >>
    /\ last = "init" =>
          \A i \in Indices(particles) : particles[i].x.y = RowY(i)
    /\ (last = "init" /\ frames > 0) =>
          /\ Len(particles) = first
          /\ \A i \in Indices(particles) : Fresh(particles[i])

\* C7's case: a reset after ticks of a population of several particles.
C7_Witness ==
    last = "init" /\ frames > 1 /\ tick > 0 /\ Len(particles) > 1

\* Two particles at distinct positions less than H apart, as compute_forces
\* found them.
TwoBody ==
    /\ last = "compute_forces"
    /\ Len(old) = 2
    /\ ~VEq(old[1].x, old[2].x)
    /\ FLt(distance(old[1], old[2]), H)

\* The pressure and viscosity force on particle i: its force without gravity.
pair_force(i) ==
    LET acc == force_sum([fpress |-> VZero, fvisc |-> VZero], old[i], old, 1)
    IN  VAdd(acc.fpress, acc.fvisc)

\* C8: momentum-conserving symmetrization: for two particles at distinct
\* positions less than H apart, the force on one without gravity is the
\* exact negation of the force on the other; on the x axis, where G is
\* zero, the forces compute_forces stores are exact negations and sum to zero.
C8_PairForcesCancel ==
    TwoBody =>
        /\ pair_force(1) = VNeg(pair_force(2))
        /\ particles[1].f.x = FNeg(particles[2].f.x)
        /\ FAdd(particles[1].f.x, particles[2].f.x) = Zero

\* C8's case: two such particles with different velocities and a force
\* between them.
C8_Witness ==
    /\ TwoBody
    /\ old[1].v # old[2].v
    /\ particles[1].f.x # Zero
    /\ pair_force(1).y # Zero

\* The velocity and position of particle p after the update of integrate,
\* before the boundary tests.
Advanced(p) ==
    LET v == VAdd(p.v, VDiv(VScale(p.f, DT), p.rho))
    IN  [v |-> v, x |-> VAdd(p.x, VScale(v, DT))]

\* The bounce on one axis: x0, v0 the position and velocity on the axis
\* before the boundary tests, x1, v1 after them, hi the upper edge.
AxisBounce(x0, v0, x1, v1, hi) ==
    LET low  == FLt(x0, EPS)
        high == FGt(x0, FSub(hi, EPS))
    IN  /\ low =>
              /\ x1 = EPS
              /\ FLt(v0, Zero)
              /\ v1 = FMul(v0, BOUND_DAMPING)
              /\ FGt(v1, Zero)
              /\ FAdd(v1, v1) = FNeg(v0)
        /\ high =>
              /\ x1 = FSub(hi, EPS)
              /\ FGt(v0, Zero)
              /\ v1 = FMul(v0, BOUND_DAMPING)
              /\ FLt(v1, Zero)
              /\ FAdd(v1, v1) = FNeg(v0)
        /\ (x1 # x0) => (low \/ high)
        /\ (~low /\ ~high) => (x1 = x0 /\ v1 = v0)

\* C9: inelastic bounce per axis: for a particle inside the domain before
\* the step, a position clamped to an edge has its velocity on that axis
\* multiplied by -0.5 exactly once: at the lower edge the velocity was
\* negative and leaves positive with half the magnitude; an axis that is
\* not clamped keeps its velocity.
C9_BouncePerAxis ==
    last = "integrate" =>
        \A i \in Indices(old) :
            in_domain(old[i]) =>
                LET a == Advanced(old[i])
                IN  /\ AxisBounce(a.x.x, a.v.x, particles[i].x.x,
                                  particles[i].v.x, VIEW_WIDTH)
                    /\ AxisBounce(a.x.y, a.v.y, particles[i].x.y,
                                  particles[i].v.y, VIEW_HEIGHT)

\* C9's case: a particle inside the domain that integrate clamped at the
\* lower edge of both axes.
C9_Witness ==
    /\ last = "integrate"
    /\ \E i \in Indices(old) :
          /\ in_domain(old[i])
          /\ FLt(Advanced(old[i]).x.x, EPS)
          /\ FLt(Advanced(old[i]).x.y, EPS)
          /\ particles[i].x = Vec2(EPS, EPS)

\* C10: semi-implicit Euler order: the velocity is advanced by
\* dt * force / density first, the position by dt times the velocity so
\* advanced, and the boundary tests see the position so advanced.
C10_EulerOrder ==
    last = "integrate" =>
        \A i \in Indices(old) :
            LET v == VAdd(old[i].v, VDiv(VScale(old[i].f, DT), old[i].rho))
                x == VAdd(old[i].x, VScale(v, DT))
            IN  /\ (FLe(EPS, x.x) /\ FLe(x.x, FSub(VIEW_WIDTH, EPS))) =>
                      (particles[i].x.x = x.x /\ particles[i].v.x = v.x)
                /\ (FLe(EPS, x.y) /\ FLe(x.y, FSub(VIEW_HEIGHT, EPS))) =>
                      (particles[i].x.y = x.y /\ particles[i].v.y = v.y)
                /\ FLt(x.x, EPS) => particles[i].x.x = EPS
                /\ FLt(x.y, EPS) => particles[i].x.y = EPS
                /\ FGt(x.x, FSub(VIEW_WIDTH, EPS)) =>
                      particles[i].x.x = FSub(VIEW_WIDTH, EPS)
                /\ FGt(x.y, FSub(VIEW_HEIGHT, EPS)) =>
                      particles[i].x.y = FSub(VIEW_HEIGHT, EPS)

\* C10's case: a particle that stays inside the domain, whose velocity the
\* step changed, and whose position differs from the one the velocity of
\* before the step gives.
C10_Witness ==
    /\ last = "integrate"
    /\ \E i \in Indices(old) :
          /\ in_domain(particles[i])
          /\ FLt(EPS, particles[i].x.x)
          /\ FLt(EPS, particles[i].x.y)
          /\ particles[i].v # old[i].v
          /\ particles[i].x # VAdd(old[i].x, VScale(old[i].v, DT))
          /\ particles[i].x = VAdd(old[i].x, VScale(particles[i].v, DT))

=============================================================================
